---------------------------- MODULE Spec2Model ----------------------------
(***************************************************************************)
(* Market Research Assistant (src/armaanstreamlit.py): the input           *)
(* validator, the Wikipedia link extractor, the report sanitizer and the   *)
(* three-step Streamlit session workflow.                                  *)
(*                                                                         *)
(* Python str values are TLA+ strings; a character is a string of length   *)
(* one (SubSeq(s, i, i)).  Python's None is the empty tuple and a set      *)
(* session value v is the one-element tuple <<v>>.                         *)
(***************************************************************************)
EXTENDS Integers, Sequences, FiniteSets, TLC

VARIABLES
    user_input,     \* validate_industry: its argument
    v_result,       \* validate_industry: what it returned (None before the call)
    c_text,         \* clean_report_text: its argument
    c_result,       \* clean_report_text: what it returned (None before the call)
    primary_out,    \* get_wikipedia_urls: outcome of the first model call
    fallback_out,   \* get_wikipedia_urls: outcome of the fallback model call
    u_result,       \* get_wikipedia_urls: what it did (None before the call)
    step,           \* st.session_state.step
    industry,       \* st.session_state.industry
    urls,           \* st.session_state.urls
    report,         \* st.session_state.report
    api_key,        \* the sidebar's API key field
    industry_input, \* the Step 1 text field
    rendered,       \* the buttons the last script run put on the page
    event,          \* the user action that caused the last script run
    calls           \* the model-calling functions that run invoked, in order

pureVars == <<user_input, v_result, c_text, c_result, primary_out, fallback_out, u_result>>
sessionVars == <<step, industry, urls, report>>
pageVars == <<api_key, industry_input, rendered, event, calls>>

vars == <<pureVars, sessionVars, pageVars>>

(***************************************************************************)
(* Bounds of the model.                                                    *)
(***************************************************************************)
MaxPieces == 3
MaxReportPieces == 3
MaxBlocks == 3

(***************************************************************************)
(* Python values and str helpers.                                          *)
(***************************************************************************)
None == <<>>
Some(v) == <<v>>

Char(s, i) == SubSeq(s, i, i)

\* the characters str.strip() and the regex class \s treat as whitespace
Whitespace == {" ", "\t", "\n", "\r", "\f"}

UpperCase == "ABCDEFGHIJKLMNOPQRSTUVWXYZ"
LowerCase == "abcdefghijklmnopqrstuvwxyz"

\* str.lower() on one character
LowerChar(c) ==
    IF \E i \in 1..26 : Char(UpperCase, i) = c
    THEN Char(LowerCase, CHOOSE i \in 1..26 : Char(UpperCase, i) = c)
    ELSE c

\* str.lower(), by halves
RECURSIVE lower(_)
lower(s) ==
    IF Len(s) = 0 THEN ""
    ELSE IF Len(s) = 1 THEN LowerChar(s)
    ELSE LET mid == Len(s) \div 2
         IN  lower(SubSeq(s, 1, mid)) \o lower(SubSeq(s, mid + 1, Len(s)))

\* the least index j in lo..hi with (s[j] \in set) = inside, or hi + 1;
\* searched by halves
RECURSIVE FirstWhere(_, _, _, _, _)
FirstWhere(s, lo, hi, set, inside) ==
    IF lo > hi THEN hi + 1
    ELSE IF lo = hi THEN (IF (Char(s, lo) \in set) = inside THEN lo ELSE hi + 1)
    ELSE LET mid == (lo + hi) \div 2
             left == FirstWhere(s, lo, mid, set, inside)
         IN  IF left <= mid THEN left ELSE FirstWhere(s, mid + 1, hi, set, inside)

\* the greatest index j in lo..hi with (s[j] \in set) = inside, or lo - 1
RECURSIVE LastWhere(_, _, _, _, _)
LastWhere(s, lo, hi, set, inside) ==
    IF lo > hi THEN lo - 1
    ELSE IF lo = hi THEN (IF (Char(s, lo) \in set) = inside THEN lo ELSE lo - 1)
    ELSE LET mid == (lo + hi) \div 2
             right == LastWhere(s, mid + 1, hi, set, inside)
         IN  IF right > mid THEN right ELSE LastWhere(s, lo, mid, set, inside)

\* first index j >= i whose character is outside set (Len(s) + 1 at the end)
SkipWhile(s, i, set) == IF i > Len(s) THEN i ELSE FirstWhere(s, i, Len(s), set, FALSE)

\* first index j >= i whose character is in stop (Len(s) + 1 at the end)
SkipUntil(s, i, stop) == IF i > Len(s) THEN i ELSE FirstWhere(s, i, Len(s), stop, TRUE)

\* str.rstrip(chars) / str.lstrip(chars)
rstrip_chars(s, chars) == SubSeq(s, 1, LastWhere(s, 1, Len(s), chars, FALSE))
lstrip_chars(s, chars) == SubSeq(s, SkipWhile(s, 1, chars), Len(s))

\* str.strip() with no argument
strip(s) == rstrip_chars(lstrip_chars(s, Whitespace), Whitespace)

\* whether s[i:] starts with p (i is 1-based)
StartsAt(s, i, p) ==
    /\ i >= 1
    /\ i + Len(p) - 1 <= Len(s)
    /\ SubSeq(s, i, i + Len(p) - 1) = p

\* Python's "p in s"
Contains(s, p) == \E i \in 1..(Len(s) + 1) : StartsAt(s, i, p)

RECURSIVE Repeat(_, _)
Repeat(s, n) == IF n <= 0 THEN "" ELSE s \o Repeat(s, n - 1)

\* every concatenation of at most n members of the set pieces
RECURSIVE Concats(_, _)
Concats(pieces, n) ==
    IF n = 0 THEN {""}
    ELSE LET shorter == Concats(pieces, n - 1)
         IN  shorter \cup {p \o t : p \in pieces, t \in shorter}

(***************************************************************************)
(* validate_industry                                                       *)
(***************************************************************************)
MinIndustryLen == 2
MaxIndustryLen == 100

suspicious == <<"<script", "javascript:", "onclick=", "--">>

ErrEmpty == "Industry name cannot be empty."
ErrTooShort == "Industry name too short."
ErrTooLong == "Industry name too long (max 100 characters)."
ErrSuspicious == "Invalid characters detected."

Failure(error) == [is_valid |-> FALSE, cleaned |-> None, error |-> Some(error)]
Success(cleaned) == [is_valid |-> TRUE, cleaned |-> Some(cleaned), error |-> None]

\* IsSuspicious with the comparison made case-sensitive
IsSuspicious_CaseSensitive(cleaned) ==
    \E k \in 1..Len(suspicious) : Contains(cleaned, suspicious[k])

IsSuspicious(cleaned) ==
    \E k \in 1..Len(suspicious) : Contains(lower(cleaned), lower(suspicious[k]))

\* from "cleaned = user_input.strip()" on
Checked(cleaned) ==
    IF Len(cleaned) < MinIndustryLen THEN Failure(ErrTooShort)
    ELSE IF Len(cleaned) > MaxIndustryLen THEN Failure(ErrTooLong)
    ELSE IF IsSuspicious(cleaned) THEN Failure(ErrSuspicious)
    ELSE Success(cleaned)

validate_industry(raw) ==
    IF Len(raw) = 0 \/ strip(raw) = "" THEN Failure(ErrEmpty)
    ELSE Checked(strip(raw))

(***************************************************************************)
(* Regular-expression pieces shared by the sanitizer and the extractor.    *)
(* A match operator takes the subject and a 1-based start index and        *)
(* returns the index just past the match, or 0 when the pattern does not   *)
(* match there.  Intermediate positions are passed on as parameters.       *)
(***************************************************************************)
Digits == {"0", "1", "2", "3", "4", "5", "6", "7", "8", "9"}

\* the regex anchor ^ under re.MULTILINE
AtLineStart(s, i) == i = 1 \/ Char(s, i - 1) = "\n"

\* s[i-1 : i-1+n]
Slice(s, i, n) == SubSeq(s, i, IF i + n - 1 <= Len(s) THEN i + n - 1 ELSE Len(s))

\* https?://  (ignoreCase: under the (?i) flag); head is the text at i
SchemeAfter(head, i) ==
    IF StartsAt(head, 1, "https://") THEN i + 8
    ELSE IF StartsAt(head, 1, "http://") THEN i + 7
    ELSE 0

SchemeEnd(s, i, ignoreCase) ==
    IF i > Len(s) THEN 0
    ELSE SchemeAfter(IF ignoreCase THEN lower(Slice(s, i, 8)) ELSE Slice(s, i, 8), i)

\* a run of characters from..to-1 that has to have at least one
NonEmpty(from, to) == IF to = from THEN 0 ELSE to

\* \S+ after the scheme
UrlEnd(s, scheme) ==
    IF scheme = 0 THEN 0 ELSE NonEmpty(scheme, SkipUntil(s, scheme, Whitespace))

\* https?://\S+
MatchUrl(s, i) == UrlEnd(s, SchemeEnd(s, i, FALSE))

\* (sources?|references?) under (?i); head is the lower-cased text at i
LabelStem(head, i) ==
    IF StartsAt(head, 1, "source") THEN i + 6
    ELSE IF StartsAt(head, 1, "reference") THEN i + 9
    ELSE 0

LabelPlural(s, stem) ==
    IF stem = 0 THEN 0
    ELSE IF stem <= Len(s) /\ LowerChar(Char(s, stem)) = "s" THEN stem + 1
    ELSE stem

LabelEnd(s, i) == LabelPlural(s, LabelStem(lower(Slice(s, i, 9)), i))

\* \s*:\s*.*$ after the label; colon is where the ":" has to be
LabelRest(s, colon) ==
    IF colon = 0 \/ colon > Len(s) \/ Char(s, colon) # ":" THEN 0
    ELSE SkipUntil(s, SkipWhile(s, colon + 1, Whitespace), {"\n"})

LabelColon(s, label) == IF label = 0 THEN 0 ELSE SkipWhile(s, label, Whitespace)

\* (?im)^\s*(sources?|references?)\s*:\s*.*$
MatchLabelLine(s, i) ==
    IF ~AtLineStart(s, i) THEN 0
    ELSE LabelRest(s, LabelColon(s, LabelEnd(s, SkipWhile(s, i, Whitespace))))

\* (\[\d+\]|\d+\.?)?  : the index just past the optional list marker;
\* d is the end of the run of digits
BracketMarker(s, i, d) ==
    IF d > i + 1 /\ d <= Len(s) /\ Char(s, d) = "]" THEN d + 1 ELSE i

NumberMarker(s, d) == IF d <= Len(s) /\ Char(s, d) = "." THEN d + 1 ELSE d

MarkerEnd(s, i) ==
    IF i <= Len(s) /\ Char(s, i) = "["
    THEN BracketMarker(s, i, SkipWhile(s, i + 1, Digits))
    ELSE IF i <= Len(s) /\ Char(s, i) \in Digits
    THEN NumberMarker(s, SkipWhile(s, i, Digits))
    ELSE i

\* \s*$ after the URL: the whole whitespace run ws when it reaches the end of
\* the text, else up to the last line break in the run (0: there is none)
TrailingAt(s, i, ws, newline) ==
    IF ws > Len(s) THEN ws
    ELSE IF newline >= i THEN newline
    ELSE 0

TrailingRun(s, i, ws) == TrailingAt(s, i, ws, LastWhere(s, i, ws - 1, {"\n"}, TRUE))

TrailingEnd(s, url) ==
    IF url = 0 THEN 0 ELSE TrailingRun(s, url, SkipWhile(s, url, Whitespace))

\* (?im)^\s*(\[\d+\]|\d+\.?)?\s*https?://\S+\s*$
MatchUrlLine(s, i) ==
    IF ~AtLineStart(s, i) THEN 0
    ELSE TrailingEnd(s,
            UrlEnd(s,
                SchemeEnd(s,
                    SkipWhile(s, MarkerEnd(s, SkipWhile(s, i, Whitespace)), Whitespace),
                    TRUE)))

\* \n{3,}
BlankRun(i, run) == IF run - i >= 3 THEN run ELSE 0

MatchBlankLines(s, i) == BlankRun(i, SkipWhile(s, i, {"\n"}))

Marker == "wikipedia.org"

\* the last index k in from..to at which the marker starts, or 0; by halves
RECURSIVE LastMarker(_, _, _)
RECURSIVE LastMarkerOr(_, _, _, _)
LastMarkerOr(s, from, to, right) ==
    IF right > 0 THEN right ELSE LastMarker(s, from, to)

LastMarker(s, from, to) ==
    IF to < from THEN 0
    ELSE IF from = to THEN (IF StartsAt(s, to, Marker) THEN to ELSE 0)
    ELSE LastMarkerOr(s, from, (from + to) \div 2,
                      LastMarker(s, (from + to) \div 2 + 1, to))

\* [^\s\)\,]* after the marker at k
WikiTail(s, k) ==
    IF k = 0 THEN 0 ELSE SkipUntil(s, k + Len(Marker), Whitespace \cup {")", ","})

\* [^\s\)]+wikipedia\.org : greedy, so the last marker in the run counts
WikiBody(s, scheme) ==
    IF scheme = 0 THEN 0
    ELSE WikiTail(s, LastMarker(s, scheme + 1,
                                SkipUntil(s, scheme, Whitespace \cup {")"}) - Len(Marker)))

\* https?://[^\s\)]+wikipedia\.org[^\s\)\,]*
MatchWiki(s, i) == WikiBody(s, SchemeEnd(s, i, FALSE))

\* the patterns of clean_report_text and get_wikipedia_urls, by name
Match(pattern, s, i) ==
    CASE pattern = "label_line" -> MatchLabelLine(s, i)
      [] pattern = "url_line" -> MatchUrlLine(s, i)
      [] pattern = "url" -> MatchUrl(s, i)
      [] pattern = "blank_lines" -> MatchBlankLines(s, i)
      [] pattern = "wiki" -> MatchWiki(s, i)

NoMatch == <<0, 0>>

MatchAt(i, end) == IF end > 0 THEN <<i, end>> ELSE NoMatch

\* the leftmost match that starts in lo..hi, as <<start, end>>, or NoMatch;
\* searched by halves
RECURSIVE NextMatch(_, _, _, _)
RECURSIVE NextMatchOr(_, _, _, _, _)
NextMatchOr(pattern, s, lo, hi, left) ==
    IF left # NoMatch THEN left ELSE NextMatch(pattern, s, lo, hi)

NextMatch(pattern, s, lo, hi) ==
    IF lo > hi THEN NoMatch
    ELSE IF lo = hi THEN MatchAt(lo, Match(pattern, s, lo))
    ELSE NextMatchOr(pattern, s, (lo + hi) \div 2 + 1, hi,
                     NextMatch(pattern, s, lo, (lo + hi) \div 2))

\* re.sub(pattern, repl, s), scanning from index i: leftmost matches, none
\* overlapping; m is the next match
RECURSIVE Sub(_, _, _, _)
RECURSIVE SubFrom(_, _, _, _, _)
SubFrom(pattern, repl, s, i, m) ==
    IF m = NoMatch THEN SubSeq(s, i, Len(s))
    ELSE SubSeq(s, i, m[1] - 1) \o repl \o Sub(pattern, repl, s, m[2])

Sub(pattern, repl, s, i) == SubFrom(pattern, repl, s, i, NextMatch(pattern, s, i, Len(s)))

\* re.findall(pattern, s), scanning from index i; m is the next match
RECURSIVE FindAll(_, _, _)
RECURSIVE FindAllFrom(_, _, _)
FindAllFrom(pattern, s, m) ==
    IF m = NoMatch THEN <<>>
    ELSE <<SubSeq(s, m[1], m[2] - 1)>> \o FindAll(pattern, s, m[2])

FindAll(pattern, s, i) == FindAllFrom(pattern, s, NextMatch(pattern, s, i, Len(s)))

\* re.search(pattern, s): the first match, as <<text>>, or None
Found(s, m) == IF m = NoMatch THEN None ELSE Some(SubSeq(s, m[1], m[2] - 1))

Search(pattern, s) == Found(s, NextMatch(pattern, s, 1, Len(s)))

(***************************************************************************)
(* clean_report_text                                                       *)
(***************************************************************************)
clean_report_text(text) ==
    IF text = "" THEN ""
    ELSE strip(
            Sub("blank_lines", "\n\n",
                Sub("url", "",
                    Sub("url_line", "",
                        Sub("label_line", "", text, 1),
                        1),
                    1),
                1))

(***************************************************************************)
(* get_wikipedia_urls                                                      *)
(***************************************************************************)
\* what a client.responses.create call does: it raises, or it returns a
\* response whose output_text is a str or None
Raised == [raised |-> TRUE, output_text |-> None]
Response(output_text) == [raised |-> FALSE, output_text |-> output_text]

\* response.output_text or ""
_response_text(response) ==
    IF response.output_text = None THEN "" ELSE response.output_text[1]

\* the line boundaries of str.splitlines() among the characters modelled
LineBreaks == {"\n", "\r", "\f"}

\* str.splitlines(); e is the first line boundary
RECURSIVE splitlines(_)
RECURSIVE SplitAt(_, _)
SplitAt(s, e) ==
    <<SubSeq(s, 1, e - 1)>>
    \o splitlines(SubSeq(s, IF StartsAt(s, e, "\r\n") THEN e + 2 ELSE e + 1, Len(s)))

splitlines(s) == IF s = "" THEN <<>> ELSE SplitAt(s, SkipUntil(s, 1, LineBreaks))

TrailingPunctuation == {".", ",", ";", ":"}

\* the body of the loop over text.splitlines(): one match at most from a line
LineMatch(line) ==
    IF Contains(lower(line), Marker) THEN Search("wiki", line) ELSE None

Appended(match) ==
    IF match # None THEN <<rstrip_chars(match[1], TrailingPunctuation)>> ELSE <<>>

RECURSIVE PrimaryUrls(_, _)
PrimaryUrls(lines, i) ==
    IF i > Len(lines) THEN <<>>
    ELSE Appended(LineMatch(lines[i])) \o PrimaryUrls(lines, i + 1)

\* [u.rstrip(".,;:") for u in extra]
Stripped(extra) ==
    [k \in 1..Len(extra) |-> rstrip_chars(extra[k], TrailingPunctuation)]

FallbackUrls(text) == Stripped(FindAll("wiki", text, 1))

\* Normalize with the fragment left in place
Normalize_KeepsFragment(url) == rstrip_chars(url, {"/"})

\* url.split("#")[0].rstrip("/")
Normalize(url) ==
    rstrip_chars(SubSeq(url, 1, SkipUntil(url, 1, {"#"}) - 1), {"/"})

FallbackBelow == 5
KeepFirst == 5
ReturnFirst == 5

NeedsFallback(found) == Len(found) < FallbackBelow

\* the deduplication loop, from index i of the candidate list
RECURSIVE Dedupe(_, _, _, _)
RECURSIVE DedupeNext(_, _, _, _)
DedupeNext(candidates, i, unique, seen) ==
    IF Len(unique) = KeepFirst THEN unique
    ELSE Dedupe(candidates, i + 1, unique, seen)

DedupeStep(candidates, i, unique, seen, normalized) ==
    IF normalized \notin seen /\ Contains(normalized, Marker)
    THEN DedupeNext(candidates, i, Append(unique, candidates[i]),
                    seen \cup {normalized})
    ELSE DedupeNext(candidates, i, unique, seen)

Dedupe(candidates, i, unique, seen) ==
    IF i > Len(candidates) THEN unique
    ELSE DedupeStep(candidates, i, unique, seen, Normalize(candidates[i]))

FirstN(seq, n) == SubSeq(seq, 1, IF Len(seq) < n THEN Len(seq) ELSE n)

\* the result of get_wikipedia_urls.  raised: the exception left the
\* function; value: the returned list; calls: the model calls issued, in order
Returned(all, issued) ==
    [raised |-> FALSE,
     value |-> FirstN(Dedupe(all, 1, <<>>, {}), ReturnFirst),
     calls |-> issued]

Failed(issued) == [raised |-> TRUE, value |-> <<>>, calls |-> issued]

\* from "if len(urls) < 5" on; found is the list after the first call
WithFallback(found, fallback) ==
    IF ~NeedsFallback(found) THEN Returned(found, <<"primary">>)
    ELSE IF fallback.raised THEN Failed(<<"primary", "fallback">>)
    ELSE Returned(found \o FallbackUrls(_response_text(fallback)),
                  <<"primary", "fallback">>)

get_wikipedia_urls(primary, fallback) ==
    IF primary.raised THEN Failed(<<"primary">>)
    ELSE WithFallback(PrimaryUrls(splitlines(_response_text(primary)), 1), fallback)

(***************************************************************************)
(* generate_report: the model call, then .strip() and clean_report_text    *)
(***************************************************************************)
generate_report(response) ==
    IF response.raised
    THEN [raised |-> TRUE, value |-> ""]
    ELSE [raised |-> FALSE,
          value |-> clean_report_text(strip(_response_text(response)))]

(***************************************************************************)
(* The page script.  Streamlit runs it top to bottom on every user action; *)
(* st.stop() ends the run, st.rerun() ends it and runs the script again    *)
(* with no button pressed.  A run is a record                              *)
(*   sess: the session state, ctl: "continue" | "stop" | "rerun",          *)
(*   rendered: the buttons put on the page so far, calls: the calls made.  *)
(***************************************************************************)
\* Python truthiness of an optional str or list
Truthy(v) == v # None /\ Len(v[1]) > 0

BeginRun(sess, calls_made) ==
    [sess |-> sess, ctl |-> "continue", rendered |-> {}, calls |-> calls_made]

\* StartValidated with the old report left in the session
StartValidated_KeepsReport(r, v) ==
    IF ~v.is_valid THEN r
    ELSE [r EXCEPT !.sess = [step |-> 2, industry |-> v.cleaned,
                             urls |-> None, report |-> r.sess.report],
                   !.ctl = "rerun"]

\* the Start Research handler once the key is known to be set; v is what
\* validate_industry returned
StartValidated(r, v) ==
    IF ~v.is_valid THEN r
    ELSE [r EXCEPT !.sess = [step |-> 2, industry |-> v.cleaned,
                             urls |-> None, report |-> None],
                   !.ctl = "rerun"]

StartPressed(r, key, input) ==
    IF key = "" THEN [r EXCEPT !.ctl = "stop"]
    ELSE StartValidated(r, validate_industry(input))

\* the Start Research button and its handler
StartResearch(r, pressed, key, input) ==
    IF r.ctl # "continue" THEN r
    ELSE IF ~pressed THEN [r EXCEPT !.rendered = @ \cup {"start"}]
    ELSE StartPressed([r EXCEPT !.rendered = @ \cup {"start"}], key, input)

\* the record of a model-calling function's invocation
Call(fn, sess, arg_urls, raised) ==
    [fn |-> fn, before |-> sess, industry |-> sess.industry, urls |-> arg_urls,
     raised |-> raised]

\* StoreSources with the except branch storing an empty list
StoreSources_EmptyOnError(r, got) ==
    IF got.raised
    THEN [r EXCEPT !.calls = Append(@, Call("get_wikipedia_urls", r.sess, None, TRUE)),
                   !.sess.urls = Some(<<>>),
                   !.ctl = "stop"]
    ELSE [r EXCEPT !.calls = Append(@, Call("get_wikipedia_urls", r.sess, None, FALSE)),
                   !.sess.urls = Some(got.value)]

\* the try/except around get_wikipedia_urls; got is what the function did
StoreSources(r, got) ==
    IF got.raised
    THEN [r EXCEPT !.calls = Append(@, Call("get_wikipedia_urls", r.sess, None, TRUE)),
                   !.ctl = "stop"]
    ELSE [r EXCEPT !.calls = Append(@, Call("get_wikipedia_urls", r.sess, None, FALSE)),
                   !.sess.urls = Some(got.value)]

\* Step 2: the reference-discovery call; found is what get_wikipedia_urls
\* does when called
FindSources(r, found) ==
    IF r.ctl # "continue" THEN r
    ELSE IF ~(r.sess.step >= 2 /\ Truthy(r.sess.industry)) THEN r
    ELSE IF r.sess.urls # None THEN r
    ELSE StoreSources(r, found)

\* Step 2: the link list and the Generate Report button
ShowSources(r, pressed) ==
    IF r.ctl # "continue" THEN r
    ELSE IF ~(r.sess.step >= 2 /\ Truthy(r.sess.industry)) THEN r
    ELSE IF ~Truthy(r.sess.urls) THEN r
    ELSE IF ~pressed THEN [r EXCEPT !.rendered = @ \cup {"generate"}]
    ELSE [r EXCEPT !.rendered = @ \cup {"generate"}, !.sess.step = 3, !.ctl = "rerun"]

\* the try/except around generate_report; got is what the function did
StoreReport(r, got) ==
    IF got.raised
    THEN [r EXCEPT !.calls = Append(@, Call("generate_report", r.sess, r.sess.urls, TRUE)),
                   !.ctl = "stop"]
    ELSE [r EXCEPT !.calls = Append(@, Call("generate_report", r.sess, r.sess.urls, FALSE)),
                   !.sess.report = Some(got.value)]

\* Step 3: the report-generation call; written is what generate_report does
\* when called
WriteReport(r, written) ==
    IF r.ctl # "continue" THEN r
    ELSE IF ~(r.sess.step >= 3 /\ Truthy(r.sess.urls)) THEN r
    ELSE IF r.sess.report # None THEN r
    ELSE StoreReport(r, written)

\* Reset with the industry left in the session
Reset_KeepsIndustry(r, pressed) ==
    IF r.ctl # "continue" THEN r
    ELSE IF ~(r.sess.step > 1) THEN r
    ELSE IF ~pressed THEN [r EXCEPT !.rendered = @ \cup {"reset"}]
    ELSE [r EXCEPT !.rendered = @ \cup {"reset"},
                   !.sess = [step |-> 1, industry |-> r.sess.industry,
                             urls |-> None, report |-> None],
                   !.ctl = "rerun"]

\* the New Research button and its handler
Reset(r, pressed) ==
    IF r.ctl # "continue" THEN r
    ELSE IF ~(r.sess.step > 1) THEN r
    ELSE IF ~pressed THEN [r EXCEPT !.rendered = @ \cup {"reset"}]
    ELSE [r EXCEPT !.rendered = @ \cup {"reset"},
                   !.sess = [step |-> 1, industry |-> None,
                             urls |-> None, report |-> None],
                   !.ctl = "rerun"]

\* one run of the script
Script(sess, calls_made, button, key, input, out) ==
    Reset(
        WriteReport(
            ShowSources(
                FindSources(
                    StartResearch(BeginRun(sess, calls_made), button = "start", key, input),
                    out.found),
                button = "generate"),
            out.written),
        button = "reset")

\* a user action: the run it causes and, after each st.rerun(), the run that
\* follows with no button pressed; r is the run just made
RECURSIVE Interaction(_, _, _, _, _, _)
RECURSIVE Rerun(_, _, _, _)
Rerun(r, key, input, out) ==
    IF r.ctl = "rerun"
    THEN Interaction(r.sess, r.calls, "none", key, input, out)
    ELSE r

Interaction(sess, calls_made, button, key, input, out) ==
    Rerun(Script(sess, calls_made, button, key, input, out), key, input, out)

(***************************************************************************)
(* Values the inputs are drawn from.                                       *)
(***************************************************************************)
W(title) == "https://en.wikipedia.org/wiki/" \o title

\* raw strings for the validator: up to MaxPieces pieces, one of them a filler
\* long enough to take a string across the length limit
ValidatePieces ==
    {" ", "a", "B", "-", "--", "<script", "<SCRipt", "javascript:", "onClick=",
     Repeat("x", MaxIndustryLen - 2)}

ValidateInputs == Concats(ValidatePieces, MaxPieces)

\* raw report texts for the sanitizer
ReportPieces ==
    {"Overview: text.", " ", "\n", "\n\n\n", "Sources: Wikipedia, 2023.",
     "references :", "[1] ", "2. ", "https://en.wikipedia.org/wiki/X",
     "http://", "HTTPS://a.b"}

ReportTexts == Concats(ReportPieces, MaxReportPieces)

\* model output for the reference-discovery call, in blocks of lines
PrimaryBlocks ==
    {"1. " \o W("A") \o "\n2. " \o W("B") \o "\n",
     "3. " \o W("C") \o ".\n4. " \o W("A") \o "#History\n5. " \o W("H") \o "\n",
     W("D") \o " " \o W("E") \o "\n",
     "see (" \o W("E") \o "), " \o W("F") \o "/\n",
     "No pages found at https://en.Wikipedia.org/wiki/G\r\n",
     "- " \o W("B") \o "/\n- " \o W("G") \o ";\n"}

PrimaryOutcomes ==
    {Raised, Response(None)} \cup {Response(Some(t)) : t \in Concats(PrimaryBlocks, MaxBlocks)}

FallbackOutcomes ==
    {Raised, Response(Some("")),
     Response(Some(W("A") \o "/ and " \o W("I") \o ", " \o W("J") \o "; " \o W("K")
                   \o ":\n(" \o W("L") \o ") " \o W("M") \o "#x " \o W("N")))}

\* what the model calls of the workflow may do
WorkflowPrimary ==
    {Raised, Response(None),
     Response(Some("1. " \o W("A") \o "\n2. " \o W("A") \o "#History\n")),
     Response(Some(W("A") \o "\n" \o W("B") \o "\n" \o W("C") \o "\n"
                   \o W("D") \o "\n" \o W("E") \o "\n" \o W("F") \o "\n"))}

WorkflowFallback ==
    {Raised, Response(Some("")), Response(Some(W("B") \o " " \o W("C")))}

WorkflowReport ==
    {Raised, Response(None),
     Response(Some("Overview: text.\n\nSources: Wikipedia, 2023.\n")),
     Response(Some(" Sources: none \n"))}

\* what get_wikipedia_urls and generate_report do on them
FoundResults ==
    {get_wikipedia_urls(p, f) : p \in WorkflowPrimary, f \in WorkflowFallback}

WrittenResults == {generate_report(response) : response \in WorkflowReport}

\* what the two functions may do within one user action; with no API key
\* every model call raises
Outcomes(key) ==
    IF key = ""
    THEN [found : {get_wikipedia_urls(Raised, Raised)},
          written : {generate_report(Raised)}]
    ELSE [found : FoundResults, written : WrittenResults]

ApiKeys == {"", "sk-test"}

IndustryInputs ==
    {"", "x", "  Renewable Energy  ", "Automotive", "a -- b", "<Script>",
     Repeat("y", MaxIndustryLen + 1)}

(***************************************************************************)
(* Specifications.                                                         *)
(***************************************************************************)
PureIdle ==
    /\ user_input = "" /\ v_result = None
    /\ c_text = "" /\ c_result = None
    /\ primary_out = Raised /\ fallback_out = Raised /\ u_result = None

\* the session after the page's first run, which sets the defaults
FreshPage ==
    /\ step = 1
    /\ industry = None
    /\ urls = None
    /\ report = None
    /\ industry_input = ""
    /\ rendered = {"start"}
    /\ event = [kind |-> "open", step |-> 1]
    /\ calls = <<>>

\* ---- validate_industry on every input ----
InitValidate ==
    /\ user_input \in ValidateInputs
    /\ v_result = None
    /\ c_text = "" /\ c_result = None
    /\ primary_out = Raised /\ fallback_out = Raised /\ u_result = None
    /\ FreshPage /\ api_key = ""

Validate ==
    /\ v_result = None
    /\ v_result' = Some(validate_industry(user_input))
    /\ UNCHANGED <<user_input, c_text, c_result, primary_out, fallback_out, u_result>>
    /\ UNCHANGED <<sessionVars, pageVars>>

NextValidate == Validate

SpecValidate == InitValidate /\ [][NextValidate]_vars

\* ---- clean_report_text on every input ----
InitClean ==
    /\ c_text \in ReportTexts
    /\ c_result = None
    /\ user_input = "" /\ v_result = None
    /\ primary_out = Raised /\ fallback_out = Raised /\ u_result = None
    /\ FreshPage /\ api_key = ""

Clean ==
    /\ c_result = None
    /\ c_result' = Some(clean_report_text(c_text))
    /\ UNCHANGED <<user_input, v_result, c_text, primary_out, fallback_out, u_result>>
    /\ UNCHANGED <<sessionVars, pageVars>>

NextClean == Clean

SpecClean == InitClean /\ [][NextClean]_vars

\* ---- get_wikipedia_urls on every pair of model outcomes ----
InitUrls ==
    /\ primary_out \in PrimaryOutcomes
    /\ fallback_out \in FallbackOutcomes
    /\ u_result = None
    /\ user_input = "" /\ v_result = None
    /\ c_text = "" /\ c_result = None
    /\ FreshPage /\ api_key = ""

GetUrls ==
    /\ u_result = None
    /\ u_result' = Some(get_wikipedia_urls(primary_out, fallback_out))
    /\ UNCHANGED <<user_input, v_result, c_text, c_result, primary_out, fallback_out>>
    /\ UNCHANGED <<sessionVars, pageVars>>

NextUrls == GetUrls

SpecUrls == InitUrls /\ [][NextUrls]_vars

\* ---- the session workflow ----
Init ==
    /\ PureIdle
    /\ FreshPage
    /\ api_key \in ApiKeys

Session == [step |-> step, industry |-> industry, urls |-> urls, report |-> report]

\* the page after a user action; r is what its script runs did
Show(kind, key, input, r) ==
    /\ step' = r.sess.step
    /\ industry' = r.sess.industry
    /\ urls' = r.sess.urls
    /\ report' = r.sess.report
    /\ rendered' = r.rendered
    /\ calls' = r.calls
    /\ event' = [kind |-> kind, step |-> step]
    /\ api_key' = key
    /\ industry_input' = input
    /\ UNCHANGED pureVars

Render(kind, button, key, input) ==
    \E out \in Outcomes(key) :
        Show(kind, key, input, Interaction(Session, <<>>, button, key, input, out))

EditIndustry ==
    \E input \in IndustryInputs \ {industry_input} :
        Render("edit_industry", "none", api_key, input)

EditApiKey ==
    \E key \in ApiKeys \ {api_key} :
        Render("edit_key", "none", key, industry_input)

ClickStart ==
    /\ "start" \in rendered
    /\ Render("start", "start", api_key, industry_input)

ClickGenerate ==
    /\ "generate" \in rendered
    /\ Render("generate", "generate", api_key, industry_input)

ClickReset ==
    /\ "reset" \in rendered
    /\ Render("reset", "reset", api_key, industry_input)

Next ==
    \/ EditIndustry
    \/ EditApiKey
    \/ ClickStart
    \/ ClickGenerate
    \/ ClickReset

Spec == Init /\ [][Next]_vars

(***************************************************************************)
(* Properties.                                                             *)
(***************************************************************************)
DenyList == {"<script", "javascript:", "onclick=", "--"}

\* the trimmed, lower-cased input contains a denylist substring
Denied(raw) == \E p \in DenyList : Contains(lower(strip(raw)), p)

SuspiciousContent ==
    [is_valid |-> FALSE, cleaned |-> None, error |-> Some("Invalid characters detected.")]

\* C1, as stated: every input whose trimmed, lower-cased form contains a
\* denylist substring is rejected as SuspiciousContent, whatever its length.
C1_SuspiciousAtAnyLength ==
    (v_result # None /\ Denied(user_input)) => v_result[1] = SuspiciousContent

\* C1, amended: every input whose trimmed form is at most 100 characters long
\* and, lower-cased, contains a denylist substring is rejected as
\* SuspiciousContent.
C1_SuspiciousWithinLimit ==
    (v_result # None /\ Denied(user_input) /\ Len(strip(user_input)) <= MaxIndustryLen)
        => v_result[1] = SuspiciousContent

\* a denylisted input of exactly the greatest admitted length has been judged
C1_Witness ==
    /\ v_result # None
    /\ Denied(user_input)
    /\ Len(strip(user_input)) = MaxIndustryLen
    /\ v_result[1] = SuspiciousContent

\* the normalized form of a link: the fragment after "#" removed, trailing
\* "/" removed
FragmentAt(url) ==
    IF \E i \in 1..Len(url) : Char(url, i) = "#"
    THEN CHOOSE i \in 1..Len(url) :
            Char(url, i) = "#" /\ \A j \in 1..(i - 1) : Char(url, j) # "#"
    ELSE Len(url) + 1

NormalForm(url) == rstrip_chars(SubSeq(url, 1, FragmentAt(url) - 1), {"/"})

Returns == u_result # None /\ ~u_result[1].raised

\* C2: the list get_wikipedia_urls returns has at most 5 entries, no two of
\* them with the same normalized form.
C2_AtMostFiveDistinct ==
    Returns =>
        /\ Len(u_result[1].value) <= 5
        /\ \A i, j \in 1..Len(u_result[1].value) :
                i # j => NormalForm(u_result[1].value[i]) # NormalForm(u_result[1].value[j])

\* five links were returned out of more than five matched in the first output
C2_Witness ==
    /\ Returns
    /\ Len(u_result[1].value) = 5
    /\ Len(PrimaryUrls(splitlines(_response_text(primary_out)), 1)) > 5

\* C3: clean_report_text is idempotent.
C3_Idempotent ==
    c_result # None => clean_report_text(c_result[1]) = c_result[1]

\* C4: the output of clean_report_text contains neither "http://" nor
\* "https://".
C4_NoScheme ==
    c_result # None =>
        /\ ~Contains(c_result[1], "http://")
        /\ ~Contains(c_result[1], "https://")

\* an industry value that validate_industry accepts unchanged
Validated(value) == value # None /\ validate_industry(value[1]) = Success(value[1])

\* C5: a link list is set only with a validated industry, a report only with
\* a non-empty link list; the reference-discovery call is issued only with a
\* validated industry in the session and the report-generation call only with
\* a non-empty link list; no unvalidated input is stored or passed on.
C5_SequentialProgression ==
    /\ industry # None => Validated(industry)
    /\ urls # None => Validated(industry)
    /\ report # None => Truthy(urls)
    /\ \A k \in 1..Len(calls) :
        /\ Validated(calls[k].industry)
        /\ calls[k].industry = calls[k].before.industry
        /\ calls[k].fn = "generate_report" =>
                Truthy(calls[k].before.urls) /\ calls[k].urls = calls[k].before.urls

\* Generate Report has led to a report-generation call that stored a report
C5_Witness ==
    /\ event.kind = "generate"
    /\ Len(calls) = 1
    /\ calls[1].fn = "generate_report"
    /\ report # None

C7_FailureKeepsSession ==
    \A k \in 1..Len(calls) :
        calls[k].raised => (k = Len(calls) /\ Session = calls[k].before)

\* report generation has failed with the links still in the session
C7_Witness ==
    /\ calls # <<>>
    /\ calls[Len(calls)].raised
    /\ calls[Len(calls)].fn = "generate_report"
    /\ step = 3 /\ Truthy(urls) /\ report = None

\* the links the first model output yields, and how many are distinct once
\* normalized
Matched == PrimaryUrls(splitlines(_response_text(primary_out)), 1)

DistinctMatched == Cardinality({NormalForm(Matched[k]) : k \in 1..Len(Matched)})

\* C8: the fallback call is issued, once, exactly when the first output
\* yields fewer than 5 distinct normalized links, and its matches are appended
\* after those of the first output.
C8_FallbackWhenFewDistinct ==
    (u_result # None /\ ~primary_out.raised) =>
        /\ DistinctMatched < 5 => u_result[1].calls = <<"primary", "fallback">>
        /\ DistinctMatched >= 5 => u_result[1].calls = <<"primary">>
        /\ (Returns /\ u_result[1].calls = <<"primary", "fallback">>) =>
                u_result[1].value =
                    Dedupe(Matched \o FallbackUrls(_response_text(fallback_out)),
                           1, <<>>, {})

\* every matching link of the text, line by line and left to right
RECURSIVE LinksInOrder(_, _)
LinksInOrder(lines, i) ==
    IF i > Len(lines) THEN <<>>
    ELSE (IF Contains(lower(lines[i]), Marker)
          THEN Stripped(FindAll("wiki", lines[i], 1))
          ELSE <<>>)
         \o LinksInOrder(lines, i + 1)

FallbackAddsNothing ==
    \/ u_result[1].calls = <<"primary">>
    \/ FallbackUrls(_response_text(fallback_out)) = <<>>

\* C9: when the fallback contributes no links, the returned list is the
\* first up-to-5 distinct-normalized links of the first output, all links of
\* a line counted, in order of appearance.
C9_FirstLinksInOrder ==
    (Returns /\ FallbackAddsNothing) =>
        u_result[1].value =
            Dedupe(LinksInOrder(splitlines(_response_text(primary_out)), 1), 1, <<>>, {})

\* C10: whenever the session is past step 1, the New Research button is on
\* the page.
C10_ResetOffered == step > 1 => "reset" \in rendered

=============================================================================
